---- MODULE Spec2Model ----
(***************************************************************************)
(* Model of instance-analysis.py: a linear script that fetches the         *)
(* configuration entities of two Jira instances (source, target),          *)
(* reconciles them per entity type and appends one report section per      *)
(* type to a document, which is saved at the end.                          *)
(*                                                                         *)
(* Python dicts are modelled as sequences of <<key, value>> pairs with     *)
(* unique keys, in insertion order.  JSON objects are TLA+ records whose   *)
(* DOMAIN holds exactly the fields present.  The bullet U+2022 of the      *)
(* report's paragraphs is written "*".                                     *)
(***************************************************************************)
EXTENDS Integers, Sequences, FiniteSets, TLC

VARIABLES
    server,       \* what the two instances hold and how they paginate it
    pc,           \* position in the script
    fetchIdx,     \* single-shot fetches of lines 79-80 completed (0..18)
    searchIdx,    \* paginated searches of lines 83-86 completed (0..4)
    start_at,     \* local of the running search_filters / search_dashboards
    items,        \* local list `filters` / `dashboards` of the running search
    data_source,  \* dict entity key -> fetched collection (source instance)
    data_target,  \* dict entity key -> fetched collection (target instance)
    doc,          \* the docx Document: sequence of block elements
    secIdx,       \* index into `sections` of the for loop of line 374
    log,          \* logging.error lines
    saved,        \* doc.save() has run
    file,         \* content written by doc.save()
    issued,       \* history: GET requests issued by the current fetch call
    failedReq,    \* history: the request answered with a non-success status
    attempted,    \* history: titles of the section functions called
    failed        \* history: titles of the section functions that raised

vars == <<server, pc, fetchIdx, searchIdx, start_at, items, data_source,
          data_target, doc, secIdx, log, saved, file, issued, failedReq,
          attempted, failed>>

-----------------------------------------------------------------------------
(* Bounds of the model *)

\* most pages an instance serves for one paginated search
MaxPages == 2
\* most records of the source collection under reconciliation
MaxSource == 3
\* most records of the target collection under reconciliation
MaxTarget == 1

-----------------------------------------------------------------------------
(* Configuration: lines 11-21, 66-76 *)

endpoints == <<"projects", "priorities", "resolutions", "roles", "issuetypes",
               "customfields", "statuses", "filters", "dashboards">>

EndpointPath(key) ==
    CASE key = "projects"     -> "/rest/api/3/project"
      [] key = "priorities"   -> "/rest/api/3/priority"
      [] key = "resolutions"  -> "/rest/api/3/resolution"
      [] key = "roles"        -> "/rest/api/3/role"
      [] key = "issuetypes"   -> "/rest/api/3/issuetype"
      [] key = "customfields" -> "/rest/api/3/field"
      [] key = "statuses"     -> "/rest/api/3/status"
      [] key = "filters"      -> "/rest/api/2/filter/search"
      [] key = "dashboards"   -> "/rest/api/2/dashboard/search"

max_results == 50

\* the four paginated calls of lines 83-86, in order
Searches == << [fn |-> "search_filters",    inst |-> "source", key |-> "filters"],
               [fn |-> "search_filters",    inst |-> "target", key |-> "filters"],
               [fn |-> "search_dashboards", inst |-> "source", key |-> "dashboards"],
               [fn |-> "search_dashboards", inst |-> "target", key |-> "dashboards"] >>

SearchPath(fn) ==
    IF fn = "search_filters" THEN "/rest/api/2/filter/search?expand=..."
                             ELSE "/rest/api/2/dashboard"

\* faulty variant: filters reported before issue types
sections_reordered ==
    << <<"Projects",    "projects",    "key">>,
       <<"Priorities",  "priorities",  "name">>,
       <<"Resolutions", "resolutions", "name">>,
       <<"Filters",     "filters",     "name">>,
       <<"Issue Types", "issuetypes",  "name">>,
       <<"Dashboards",  "dashboards",  "name">> >>

\* lines 365-372
sections == << <<"Projects",    "projects",    "key">>,
               <<"Priorities",  "priorities",  "name">>,
               <<"Resolutions", "resolutions", "name">>,
               <<"Issue Types", "issuetypes",  "name">>,
               <<"Filters",     "filters",     "name">>,
               <<"Dashboards",  "dashboards",  "name">> >>

non_migratable_types ==
    {"option-with-child", "project", "sd-servicelevelagreement", "multiuserpicker"}

-----------------------------------------------------------------------------
(* Python dict and list primitives *)

Keys(d) == {d[i][1] : i \in DOMAIN d}

Has(d, k) == k \in Keys(d)

Lookup(d, k) == d[CHOOSE i \in DOMAIN d : d[i][1] = k][2]

\* faulty variant: a present key keeps its first value
DictPutFirstWins(d, k, v) ==
    IF Has(d, k) THEN d ELSE Append(d, <<k, v>>)

\* d[k] = v on a dict: a present key keeps its position and takes the new value
DictPut(d, k, v) ==
    IF Has(d, k)
    THEN [i \in DOMAIN d |-> IF d[i][1] = k THEN <<k, v>> ELSE d[i]]
    ELSE Append(d, <<k, v>>)

\* {k: v for ...}: the pairs are inserted in iteration order
RECURSIVE DictFromPairs(_)
DictFromPairs(ps) ==
    IF ps = <<>> THEN <<>>
    ELSE DictPut(DictFromPairs(SubSeq(ps, 1, Len(ps) - 1)),
                 ps[Len(ps)][1], ps[Len(ps)][2])

Range(s) == {s[i] : i \in DOMAIN s}

\* [x for x in s if x in keep], in the order of s
RECURSIVE Filter(_, _)
Filter(s, keep) ==
    IF s = <<>> THEN <<>>
    ELSE IF s[1] \in keep THEN <<s[1]>> \o Filter(Tail(s), keep)
                          ELSE Filter(Tail(s), keep)

\* item[attr] raises KeyError for some item of the collection
AllHave(coll, attr) == \A i \in DOMAIN coll : attr \in DOMAIN coll[i]

\* item.get('description', 'No description')
Description(item) ==
    IF "description" \in DOMAIN item THEN item["description"] ELSE "No description"

\* {item[key_attr]: item.get('description', 'No description') for item in data}
DescriptionDict(coll, key_attr) ==
    DictFromPairs([i \in DOMAIN coll |-> <<coll[i][key_attr], Description(coll[i])>>])

-----------------------------------------------------------------------------
(* Reconciliation: lines 91-103 *)

\* for key, value in source.items(): if key not in target: additions[key] = value
analyze_additions(source, target) ==
    Filter(source, {p \in Range(source) : ~Has(target, p[1])})

\* faulty variant: the membership test is dropped
analyze_merges_all(source, target) == source

\* for key, value in source.items(): if key in target: merges[key] = value
analyze_merges(source, target) ==
    Filter(source, {p \in Range(source) : Has(target, p[1])})

-----------------------------------------------------------------------------
(* The document: python-docx block elements *)

Heading(text, level) == [kind |-> "heading", level |-> level, text |-> text, rows |-> <<>>]

Paragraph(text) == [kind |-> "paragraph", level |-> 0, text |-> text, rows |-> <<>>]

\* doc.add_table(rows=1, ...) with the header cells set, then one add_row() per entry
Table(header, entries) ==
    [kind |-> "table", level |-> 0, text |-> "Table Grid", rows |-> <<header>> \o entries]

\* the outcome of a section function: the document as it left it, and whether it raised
Completed(d) == [doc |-> d, raised |-> FALSE]

Raised(d) == [doc |-> d, raised |-> TRUE]

\* f"* Number of {what} in {side} instance: {count}"
CountLine(what, side, coll) ==
    Paragraph("* Number of " \o what \o " in " \o side \o " instance: " \o ToString(Len(coll)))

\* the three elements every section opens with
Opening(title, what, source_data, target_data) ==
    << Heading(title, 1),
       CountLine(what, "source", source_data),
       CountLine(what, "target", target_data) >>

\* faulty variant: the table is created whether or not there are entries
TableOrSentenceAlwaysTable(header, entries, sentence) == <<Table(header, entries)>>

\* if entries: a table ... else: doc.add_paragraph(sentence)
TableOrSentence(header, entries, sentence) ==
    IF entries # <<>> THEN <<Table(header, entries)>> ELSE <<Paragraph(sentence)>>

\* for conflict in conflicts: doc.add_paragraph(f"* {conflict}")
BulletList(names) == [i \in DOMAIN names |-> Paragraph("* " \o names[i])]

AddedHeading == "Analysis of what will be added to the target instance"

NothingAdded == "We didn't identify anything that will be added."

MergedHeading == "What will be merged (because they are on both instances)"

ProjectConflictsHeading ==
    "These project keys have conflicts and will need to be renamed in the source or target instance in order to be migrated."

-----------------------------------------------------------------------------
(* add_projects_section: lines 106-144 *)

add_projects_section(d, source_data, target_data) ==
    IF ~AllHave(source_data, "key") \/ ~AllHave(target_data, "key")
    THEN Raised(d)                       \* KeyError in line 113, nothing appended yet
    ELSE
      LET s == DescriptionDict(source_data, "key")
          t == DescriptionDict(target_data, "key")
          additions == analyze_additions(s, t)
          conflicts == analyze_merges(s, t)
      IN Completed(
           d \o Opening("Projects", "projects", source_data, target_data)
             \o <<Heading(AddedHeading, 2)>>
             \o TableOrSentence(<<"Key", "Description">>, additions, NothingAdded)
             \o (IF conflicts # <<>>
                 THEN <<Heading(ProjectConflictsHeading, 2),
                        Table(<<"Key", "Description">>, conflicts)>>
                 ELSE <<>>))

-----------------------------------------------------------------------------
(* analyze_and_add_section: lines 325-362 *)

\* title.lower()
Lower(title) ==
    CASE title = "Priorities"    -> "priorities"
      [] title = "Resolutions"   -> "resolutions"
      [] title = "Project Roles" -> "project roles"
      [] title = "Issue Types"   -> "issue types"
      [] OTHER                   -> title

\* lines 353-362: the merges table is created unconditionally
MergesBlock(merges) == <<Table(<<"Name", "Description">>, merges)>>

analyze_and_add_section(d, title, source_data, target_data, key_attr) ==
    IF ~AllHave(source_data, key_attr) \/ ~AllHave(target_data, key_attr)
    THEN Raised(d)                       \* KeyError in line 332, nothing appended yet
    ELSE
      LET s == DescriptionDict(source_data, key_attr)
          t == DescriptionDict(target_data, key_attr)
          additions == analyze_additions(s, t)
          merges == analyze_merges(s, t)
      IN Completed(
           d \o Opening(title, Lower(title), source_data, target_data)
             \o <<Heading(AddedHeading, 2)>>
             \o TableOrSentence(<<"Name", "Description">>, additions, NothingAdded)
             \o <<Heading(MergedHeading, 2)>>
             \o MergesBlock(merges))

-----------------------------------------------------------------------------
(* add_filters_section, add_dashboards_section: lines 158-200 *)

\* faulty variant: the membership test is dropped
NameConflictsSourceOnly(source_data, target_data) ==
    [i \in DOMAIN source_data |-> source_data[i]["name"]]

\* [item['name'] for item in source_data if item['name'] in [i['name'] for i in target_data]]
NameConflicts(source_data, target_data) ==
    Filter([i \in DOMAIN source_data |-> source_data[i]["name"]],
           {target_data[i]["name"] : i \in DOMAIN target_data})

\* the comprehension evaluates item['name'] for every source item and, once
\* per source item, i['name'] for every target item
NameConflictsRaises(source_data, target_data) ==
    /\ source_data # <<>>
    /\ ~AllHave(source_data, "name") \/ ~AllHave(target_data, "name")

FilterConflictsHeading == "Filters that have conflicts (same name in the source and target):"

NoFilterConflicts == "No conflicts were identified regarding filters during the assessment."

DashboardConflictsHeading == "Dashboards that have conflicts (same name in the source and target):"

NoDashboardConflicts == "No conflicts were identified regarding Dashboards during the assessment."

add_filters_section(d, source_data, target_data) ==
    LET d1 == d \o Opening("Filters", "filters", source_data, target_data)
                \o <<Heading(FilterConflictsHeading, 2)>>
    IN IF NameConflictsRaises(source_data, target_data)
       THEN Raised(d1)                   \* KeyError in line 170
       ELSE LET conflicts == NameConflicts(source_data, target_data)
            IN Completed(d1 \o (IF conflicts # <<>> THEN BulletList(conflicts)
                                ELSE <<Paragraph(NoFilterConflicts)>>))

Limitations ==
    << Heading("Limitations", 2),
       Paragraph("Since the migration of dashboards is done through REST API, our limitation is directly tied to the lack of necessary APIs for the migration. Currently, for dashboards, we have identified the following limitations:"),
       Paragraph("* Inability to migrate the layout of the dashboards"),
       Paragraph("* Inability to migrate the owner of the dashboard. To work around this limitation, we add the owner as an editor of the dashboard, but the owner will be the user running the script."),
       Paragraph("* Favorite dashboards of each user will be lost, requiring each user to find their dashboard in the destination instance and set it as a favorite again.") >>

add_dashboards_section(d, source_data, target_data) ==
    LET d1 == d \o Opening("Dashboards", "dashboards", source_data, target_data)
                \o <<Heading(DashboardConflictsHeading, 2)>>
    IN IF NameConflictsRaises(source_data, target_data)
       THEN Raised(d1)                   \* KeyError in line 189
       ELSE LET conflicts == NameConflicts(source_data, target_data)
            IN Completed(d1 \o (IF conflicts # <<>> THEN BulletList(conflicts)
                                ELSE <<Paragraph(NoDashboardConflicts)>>)
                            \o Limitations)

-----------------------------------------------------------------------------
(* add_custom_fields_section: lines 203-272 *)

\* field.get('schema', {}).get('type', 'N/A')
get_field_type(field) ==
    IF "schema" \in DOMAIN field /\ "type" \in DOMAIN field["schema"]
    THEN field["schema"]["type"] ELSE "N/A"

\* {field['name']: get_field_type(field) for field in data}
FieldTypeDict(coll) ==
    DictFromPairs([i \in DOMAIN coll |-> <<coll[i]["name"], get_field_type(coll[i])>>])

\* line 222
FieldAdditions(source_fields, target_fields) ==
    Filter(source_fields, {p \in Range(source_fields) :
                             ~Has(target_fields, p[1]) /\ p[2] \notin non_migratable_types})

\* line 238
FieldMerges(source_fields, target_fields) ==
    Filter(source_fields, {p \in Range(source_fields) :
                             Has(target_fields, p[1]) /\ p[2] # Lookup(target_fields, p[1])})

\* line 260
FieldNonMigratable(source_fields) ==
    Filter(source_fields, {p \in Range(source_fields) : p[2] \in non_migratable_types})

\* lines 247-254: name, source type, target_fields.get(name, 'N/A'), suggestion
FieldMergeRows(merges, target_fields) ==
    [i \in DOMAIN merges |->
        << merges[i][1], merges[i][2],
           IF Has(target_fields, merges[i][1]) THEN Lookup(target_fields, merges[i][1]) ELSE "N/A",
           "Rename source/target or Merge or Delete" >>]

FieldsAddedHeading == "Custom fields that will be added"

NoFieldsAdded == "No custom fields will be added."

FieldsMergedHeading == "Custom fields with the same name on both instances"

NoFieldsMerged == "No custom fields have the same name on both instances with different types."

FieldsNotMigratedHeading == "Custom fields that will not be migrated"

NoFieldsNotMigrated == "No custom fields will not be migrated."

add_custom_fields_section(d, source_data, target_data) ==
    LET d1 == d \o Opening("Custom Fields", "custom fields", source_data, target_data)
    IN IF ~AllHave(source_data, "name") \/ ~AllHave(target_data, "name")
       THEN Raised(d1)                   \* KeyError in line 217 or 218
       ELSE
         LET source_fields == FieldTypeDict(source_data)
             target_fields == FieldTypeDict(target_data)
             additions == FieldAdditions(source_fields, target_fields)
             merges == FieldMerges(source_fields, target_fields)
             non_migratable == FieldNonMigratable(source_fields)
         IN Completed(
              d1 \o <<Heading(FieldsAddedHeading, 2)>>
                 \o TableOrSentence(<<"Name", "Source Type">>, additions, NoFieldsAdded)
                 \o <<Heading(FieldsMergedHeading, 2)>>
                 \o TableOrSentence(<<"Name", "Source Type", "Target Type", "Suggestion">>,
                                    FieldMergeRows(merges, target_fields), NoFieldsMerged)
                 \o <<Heading(FieldsNotMigratedHeading, 2)>>
                 \o TableOrSentence(<<"Name", "Type">>, non_migratable, NoFieldsNotMigrated))

-----------------------------------------------------------------------------
(* add_statuses_section: lines 275-322 *)

\* status['name'] and status['statusCategory']['name'] are both present
StatusesWellFormed(coll) ==
    \A i \in DOMAIN coll :
        /\ "name" \in DOMAIN coll[i]
        /\ "statusCategory" \in DOMAIN coll[i]
        /\ "name" \in DOMAIN coll[i]["statusCategory"]

\* {status['name']: status['statusCategory']['name'] for status in data}
StatusCategoryDict(coll) ==
    DictFromPairs([i \in DOMAIN coll |-> <<coll[i]["name"], coll[i]["statusCategory"]["name"]>>])

\* faulty variant: the categories are not compared
StatusConflictsAnyShared(source_statuses, target_statuses) ==
    Filter(source_statuses, {p \in Range(source_statuses) : Has(target_statuses, p[1])})

\* line 304
StatusConflicts(source_statuses, target_statuses) ==
    Filter(source_statuses, {p \in Range(source_statuses) :
                               Has(target_statuses, p[1]) /\ p[2] # Lookup(target_statuses, p[1])})

\* lines 313-320: name, source category, target_statuses[name], suggestion
StatusConflictRows(conflicts, target_statuses) ==
    [i \in DOMAIN conflicts |->
        << conflicts[i][1], conflicts[i][2], Lookup(target_statuses, conflicts[i][1]),
           "Change category or Merge" >>]

StatusesAddedHeading == "Statuses that will be added"

NoStatusesAdded == "No statuses will be added."

StatusConflictsHeading == "Statuses with the same name but different categories"

NoStatusConflicts == "No statuses have the same name but different categories."

add_statuses_section(d, source_data, target_data) ==
    LET d1 == d \o Opening("Statuses", "statuses", source_data, target_data)
                \o <<Heading(StatusesAddedHeading, 2)>>
    IN IF ~StatusesWellFormed(source_data) \/ ~StatusesWellFormed(target_data)
       THEN Raised(d1)                   \* KeyError in line 286
       ELSE
         LET source_statuses == StatusCategoryDict(source_data)
             target_statuses == StatusCategoryDict(target_data)
             additions == analyze_additions(source_statuses, target_statuses)
             conflicts == StatusConflicts(source_statuses, target_statuses)
         IN Completed(
              d1 \o TableOrSentence(<<"Name", "Category">>, additions, NoStatusesAdded)
                 \o <<Heading(StatusConflictsHeading, 2)>>
                 \o TableOrSentence(<<"Name", "Source Category", "Target Category", "Suggestion">>,
                                    StatusConflictRows(conflicts, target_statuses),
                                    NoStatusConflicts))

-----------------------------------------------------------------------------
(* The instances: what a GET is answered with *)

SeqsUpTo(S, n) == UNION {[1..m -> S] : m \in 0..n}

EntityKeys == Range(endpoints)

\* a page of a paginated endpoint: its list field, and isLast ("absent": not sent)
Page(values, isLast) == [values |-> values, isLast |-> isLast]

\* the page the instance answers a request at offset `offset` with; past its
\* last page it answers with an empty last page
ServerPage(inst, key, offset) ==
    LET pages == server.pages[inst][key]
        k == (offset \div max_results) + 1
    IN IF k <= Len(pages) THEN pages[k] ELSE Page(<<>>, "true")

\* faulty variant: data.get('isLast', False)
IsLastDefaultFalse(page) == page.isLast = "true"

\* data.get('isLast', True)
IsLast(page) == page.isLast # "false"

\* faulty variant: the request is tried again
raise_for_status_retry(at) == at

\* position of the script once raise_for_status() has raised: the HTTPError
\* is caught nowhere
raise_for_status(at) == "aborted"

-----------------------------------------------------------------------------
(* Fetch phase: lines 79-86 *)

\* the i-th (from 0) call of get_jira_data made by lines 79 and 80
FetchCall(i) ==
    [inst |-> IF i < Len(endpoints) THEN "source" ELSE "target",
     key  |-> endpoints[(i % Len(endpoints)) + 1]]

Request(inst, endpoint, offset) == [inst |-> inst, endpoint |-> endpoint, start_at |-> offset]

Store(data, key, value) ==
    IF key \in DOMAIN data THEN [data EXCEPT ![key] = value] ELSE data @@ (key :> value)

\* get_jira_data(config, endpoint), lines 24-31, and the dict entry it fills
GetJiraData ==
    /\ pc = "fetch"
    /\ LET c == FetchCall(fetchIdx)
           req == Request(c.inst, EndpointPath(c.key), -1)
       IN \E ok \in BOOLEAN :
            /\ issued' = <<req>>
            /\ IF ok
               THEN /\ data_source' = IF c.inst = "source"
                                      THEN Store(data_source, c.key, server.data[c.inst][c.key])
                                      ELSE data_source
                    /\ data_target' = IF c.inst = "target"
                                      THEN Store(data_target, c.key, server.data[c.inst][c.key])
                                      ELSE data_target
                    /\ fetchIdx' = fetchIdx + 1
                    /\ pc' = IF fetchIdx + 1 = 2 * Len(endpoints) THEN "search" ELSE "fetch"
                    /\ UNCHANGED failedReq
               ELSE /\ pc' = raise_for_status("fetch")
                    /\ failedReq' = Append(failedReq, req)
                    /\ UNCHANGED <<data_source, data_target, fetchIdx>>
    /\ UNCHANGED <<server, searchIdx, start_at, items, doc, secIdx, log, saved, file,
                   attempted, failed>>

\* start_at += max_results
NextOffset(offset) == offset + max_results

\* one iteration of the while True loop of search_filters (lines 38-46) or
\* search_dashboards (lines 54-62)
SearchPage ==
    /\ pc = "search"
    /\ LET c == Searches[searchIdx + 1]
           req == Request(c.inst, SearchPath(c.fn), start_at)
           page == ServerPage(c.inst, c.key, start_at)
       IN \E ok \in BOOLEAN :
            /\ issued' = IF start_at = 0 THEN <<req>> ELSE Append(issued, req)
            /\ IF ok
               THEN /\ items' = items \o page.values
                    /\ IF IsLast(page)
                       THEN pc' = "search_return" /\ UNCHANGED start_at
                       ELSE pc' = "search" /\ start_at' = NextOffset(start_at)
                    /\ UNCHANGED failedReq
               ELSE /\ pc' = raise_for_status("search")
                    /\ failedReq' = Append(failedReq, req)
                    /\ UNCHANGED <<items, start_at>>
    /\ UNCHANGED <<server, fetchIdx, searchIdx, data_source, data_target, doc, secIdx,
                   log, saved, file, attempted, failed>>

\* line 47: return filters
\* line 63: return [dashboard for dashboard in dashboards if dashboard['name'] != 'Default dashboard']
SearchResult(fn, list) ==
    IF fn = "search_filters" THEN list
    ELSE Filter(list, {x \in Range(list) : x["name"] # "Default dashboard"})

\* the return of a search and the assignment of lines 83-86
SearchReturn ==
    /\ pc = "search_return"
    /\ LET c == Searches[searchIdx + 1]
       IN IF c.fn = "search_dashboards" /\ ~AllHave(items, "name")
          THEN /\ pc' = "aborted"          \* KeyError in line 63, caught nowhere
               /\ UNCHANGED <<data_source, data_target, searchIdx, start_at, items>>
          ELSE /\ data_source' = IF c.inst = "source"
                                 THEN Store(data_source, c.key, SearchResult(c.fn, items))
                                 ELSE data_source
               /\ data_target' = IF c.inst = "target"
                                 THEN Store(data_target, c.key, SearchResult(c.fn, items))
                                 ELSE data_target
               /\ searchIdx' = searchIdx + 1
               /\ start_at' = 0
               /\ items' = <<>>
               /\ pc' = IF searchIdx + 1 = Len(Searches) THEN "sections" ELSE "search"
    /\ UNCHANGED <<server, fetchIdx, doc, secIdx, log, saved, file, issued, failedReq,
                   attempted, failed>>

-----------------------------------------------------------------------------
(* Report phase: lines 374-402 *)

\* the if / elif chain of lines 376-383
Dispatch(d, title, source_data, target_data, attr) ==
    CASE title = "Projects"   -> add_projects_section(d, source_data, target_data)
      [] title = "Filters"    -> add_filters_section(d, source_data, target_data)
      [] title = "Dashboards" -> add_dashboards_section(d, source_data, target_data)
      [] OTHER -> analyze_and_add_section(d, title, source_data, target_data, attr)

\* faulty variant: the exception is raised again
except_reraise(raised, next) == IF raised THEN "aborted" ELSE next

\* except Exception as e: logging.error(...): the script goes on with what follows
except_Exception(raised, next) == next

\* the effect of one try / except block around a section function
TrySection(title, logTitle, r, next) ==
    /\ doc' = r.doc
    /\ log' = IF r.raised THEN Append(log, "Failed to analyze " \o logTitle) ELSE log
    /\ attempted' = Append(attempted, title)
    /\ failed' = IF r.raised THEN failed \cup {title} ELSE failed
    /\ pc' = except_Exception(r.raised, next)

\* one iteration of the for loop of lines 374-385
SectionStep ==
    /\ pc = "sections"
    /\ LET sec == sections[secIdx]
       IN TrySection(sec[1], sec[1],
                     Dispatch(doc, sec[1], data_source[sec[2]], data_target[sec[2]], sec[3]),
                     IF secIdx = Len(sections) THEN "custom_fields" ELSE "sections")
    /\ secIdx' = secIdx + 1
    /\ UNCHANGED <<server, fetchIdx, searchIdx, start_at, items, data_source, data_target,
                   saved, file, issued, failedReq>>

\* lines 388-391
CustomFieldsStep ==
    /\ pc = "custom_fields"
    /\ TrySection("Custom Fields", "custom fields",
                  add_custom_fields_section(doc, data_source["customfields"],
                                            data_target["customfields"]),
                  "statuses")
    /\ UNCHANGED <<server, fetchIdx, searchIdx, start_at, items, data_source, data_target,
                   secIdx, saved, file, issued, failedReq>>

\* lines 394-397
StatusesStep ==
    /\ pc = "statuses"
    /\ TrySection("Statuses", "statuses",
                  add_statuses_section(doc, data_source["statuses"], data_target["statuses"]),
                  "save")
    /\ UNCHANGED <<server, fetchIdx, searchIdx, start_at, items, data_source, data_target,
                   secIdx, saved, file, issued, failedReq>>

\* lines 400-402
Save ==
    /\ pc = "save"
    /\ saved' = TRUE
    /\ file' = doc
    /\ pc' = "done"
    /\ UNCHANGED <<server, fetchIdx, searchIdx, start_at, items, data_source, data_target,
                   doc, secIdx, log, issued, failedReq, attempted, failed>>

-----------------------------------------------------------------------------
(* Records the instances may hold *)

\* records of an entity type as the REST API sends them
Universe(key) ==
    CASE key = "projects" ->
           { [key |-> "A", description |-> "d1"], [key |-> "A", description |-> "d2"],
             [key |-> "B"] }
      [] key \in {"priorities", "resolutions", "roles", "issuetypes"} ->
           { [name |-> "a", description |-> "d1"], [name |-> "a", description |-> "d2"],
             [name |-> "b"] }
      [] key = "customfields" ->
           { [name |-> "a", schema |-> [type |-> "project"]],
             [name |-> "a", schema |-> [type |-> "string"]],
             [name |-> "b"] }
      [] key = "statuses" ->
           { [name |-> "a", statusCategory |-> [name |-> "NEW"]],
             [name |-> "a", statusCategory |-> [name |-> "DONE"]],
             [name |-> "b", statusCategory |-> [name |-> "NEW"]] }
      [] key = "filters" -> { [name |-> "a"], [name |-> "b"] }
      [] key = "dashboards" -> { [name |-> "a"], [name |-> "b"] }

\* a record without the attribute its section indexes
Malformed(key) ==
    CASE key = "statuses" -> [name |-> "a"]
      [] key = "customfields" -> [schema |-> [type |-> "string"]]
      [] OTHER -> [description |-> "d1"]

WellFormed(key) == CHOOSE r \in Universe(key) : TRUE

\* an instance serving `list` in one page
OnePage(list) == <<Page(list, "true")>>

Empty == [k \in EntityKeys |-> <<>>]

-----------------------------------------------------------------------------
(* The script from its first line *)

\* entity types whose single-shot collection a section reads
SingleShotKeys == {"projects", "priorities", "resolutions", "issuetypes",
                   "customfields", "statuses"}

InitScript ==
    /\ \E broken \in SUBSET SingleShotKeys :
       \E fpages \in { OnePage(<<[name |-> "a"]>>),
                       <<Page(<<[name |-> "a"]>>, "false"), Page(<<Malformed("filters")>>, "absent")>> } :
       \E dpages \in { <<Page(<<[name |-> "Default dashboard"]>>, "false"), Page(<<[name |-> "a"]>>, "true")>>,
                       OnePage(<<Malformed("dashboards")>>) } :
         server = [ data  |-> [ source |-> [k \in EntityKeys |->
                                              IF k \in broken THEN <<Malformed(k)>>
                                              ELSE IF k \in SingleShotKeys THEN <<WellFormed(k)>>
                                              ELSE <<>>],
                                target |-> [k \in EntityKeys |->
                                              IF k \in SingleShotKeys THEN <<WellFormed(k)>>
                                              ELSE <<>>] ],
                    pages |-> [ source |-> [k \in {"filters", "dashboards"} |->
                                              IF k = "filters" THEN fpages ELSE dpages],
                                target |-> [k \in {"filters", "dashboards"} |->
                                              OnePage(<<[name |-> "a"]>>)] ] ]
    /\ pc = "fetch"
    /\ fetchIdx = 0
    /\ searchIdx = 0
    /\ start_at = 0
    /\ items = <<>>
    /\ data_source = <<>>
    /\ data_target = <<>>
    /\ doc = <<>>
    /\ secIdx = 1
    /\ log = <<>>
    /\ saved = FALSE
    /\ file = <<>>
    /\ issued = <<>>
    /\ failedReq = <<>>
    /\ attempted = <<>>
    /\ failed = {}

Next ==
    \/ GetJiraData
    \/ SearchPage
    \/ SearchReturn
    \/ SectionStep
    \/ CustomFieldsStep
    \/ StatusesStep
    \/ Save

Spec == InitScript /\ [][Next]_vars

-----------------------------------------------------------------------------
(* The paginated searches of lines 83-86, against instances that paginate freely *)

\* most records on one page
MaxPageItems == 1

PagedNames == {"Default dashboard", "Board"}

\* page sequences an instance may serve: any isLast on any page but the
\* final one, which ends the listing
PageSequences ==
    LET Values == SeqsUpTo({[name |-> n] : n \in PagedNames}, MaxPageItems)
        Inner  == {Page(v, l) : v \in Values, l \in {"true", "false", "absent"}}
        Final  == {Page(v, l) : v \in Values, l \in {"true", "absent"}}
    IN UNION { {Append(front, last) : front \in [1..m -> Inner], last \in Final}
               : m \in 0..(MaxPages - 1) }

InitSearch ==
    /\ \E rich \in 1..Len(Searches) : \E pages \in PageSequences :
         server = [ data  |-> [source |-> Empty, target |-> Empty],
                    pages |-> [inst \in {"source", "target"} |->
                                 [k \in {"filters", "dashboards"} |->
                                    IF Searches[rich].inst = inst /\ Searches[rich].key = k
                                    THEN pages ELSE OnePage(<<>>)]] ]
    /\ pc = "search"
    /\ fetchIdx = 2 * Len(endpoints)
    /\ searchIdx = 0
    /\ start_at = 0
    /\ items = <<>>
    /\ data_source = Empty
    /\ data_target = Empty
    /\ doc = <<>>
    /\ secIdx = 1
    /\ log = <<>>
    /\ saved = FALSE
    /\ file = <<>>
    /\ issued = <<Request("target", EndpointPath("dashboards"), -1)>>
    /\ failedReq = <<>>
    /\ attempted = <<>>
    /\ failed = {}

NextSearch ==
    \/ SearchPage
    \/ SearchReturn

SpecSearch == InitSearch /\ [][NextSearch]_vars

\* the loop is sequential code: it is never suspended forever
FairSearch == SpecSearch /\ WF_vars(NextSearch)

-----------------------------------------------------------------------------
(* The report phase of lines 374-402, on fetched collections with repeated keys *)

RichKeys == {"projects", "priorities", "filters", "dashboards", "customfields", "statuses"}

InitSections ==
    /\ \E rich \in RichKeys :
       \E src \in SeqsUpTo(Universe(rich), MaxSource) :
       \E tgt \in SeqsUpTo(Universe(rich), MaxTarget) :
         /\ data_source = [k \in EntityKeys |-> IF k = rich THEN src ELSE <<>>]
         /\ data_target = [k \in EntityKeys |-> IF k = rich THEN tgt ELSE <<>>]
         /\ server = [ data  |-> [source |-> [data_source EXCEPT !["filters"] = <<>>, !["dashboards"] = <<>>],
                                  target |-> [data_target EXCEPT !["filters"] = <<>>, !["dashboards"] = <<>>]],
                       pages |-> [source |-> [k \in {"filters", "dashboards"} |-> OnePage(data_source[k])],
                                  target |-> [k \in {"filters", "dashboards"} |-> OnePage(data_target[k])]] ]
    /\ pc = "sections"
    /\ fetchIdx = 2 * Len(endpoints)
    /\ searchIdx = Len(Searches)
    /\ start_at = 0
    /\ items = <<>>
    /\ doc = <<>>
    /\ secIdx = 1
    /\ log = <<>>
    /\ saved = FALSE
    /\ file = <<>>
    /\ issued = <<Request("target", SearchPath("search_dashboards"), 0)>>
    /\ failedReq = <<>>
    /\ attempted = <<>>
    /\ failed = {}

NextSections ==
    \/ SectionStep
    \/ CustomFieldsStep
    \/ StatusesStep
    \/ Save

SpecSections == InitSections /\ [][NextSections]_vars

-----------------------------------------------------------------------------
(* Reading the document back *)

Min(S) == CHOOSE m \in S : \A x \in S : m <= x

Max(S) == CHOOSE m \in S : \A x \in S : m >= x

\* the section function of `title` has run to its end
Built(title) == title \in Range(attempted) /\ title \notin failed

\* the elements from the level-1 heading `title` up to the next level-1 heading
SectionOf(title) ==
    LET starts == {i \in DOMAIN doc : doc[i] = Heading(title, 1)}
    IN IF starts = {} THEN <<>>
       ELSE LET i == Min(starts)
                later == {j \in (i + 1)..Len(doc) : doc[j].kind = "heading" /\ doc[j].level = 1}
            IN SubSeq(doc, i, IF later = {} THEN Len(doc) ELSE Min(later) - 1)

HasBlock(sec, h2) == \E i \in DOMAIN sec : sec[i] = Heading(h2, 2)

\* the elements that follow the level-2 heading `h2` of a section, up to the next heading
Block(sec, h2) ==
    LET starts == {i \in DOMAIN sec : sec[i] = Heading(h2, 2)}
    IN IF starts = {} THEN <<>>
       ELSE LET i == Min(starts)
                later == {j \in (i + 1)..Len(sec) : sec[j].kind = "heading"}
            IN SubSeq(sec, i + 1, IF later = {} THEN Len(sec) ELSE Min(later) - 1)

Tables(block) == Filter(block, {e \in Range(block) : e.kind = "table"})

\* the data rows of the table of a block; none when the block holds no table
DataRows(block) == IF Tables(block) = <<>> THEN <<>> ELSE Tail(Tables(block)[1].rows)

Column(rows, c) == [i \in DOMAIN rows |-> rows[i][c]]

AttrSet(coll, attr) == {coll[i][attr] : i \in DOMAIN coll}

FirstIdx(coll, attr, k) == Min({i \in DOMAIN coll : coll[i][attr] = k})

LastIdx(coll, attr, k) == Max({i \in DOMAIN coll : coll[i][attr] = k})

HasRepeat(coll, attr) == \E i, j \in DOMAIN coll : i < j /\ coll[i][attr] = coll[j][attr]

\* the sections reconciled by the generic rule: title, entity key, identity
\* attribute, heading of the merges table
GenericSections ==
    { <<"Projects",    "projects",    "key",  ProjectConflictsHeading>>,
      <<"Priorities",  "priorities",  "name", MergedHeading>>,
      <<"Resolutions", "resolutions", "name", MergedHeading>>,
      <<"Issue Types", "issuetypes",  "name", MergedHeading>> }

AdditionRows(g) == DataRows(Block(SectionOf(g[1]), AddedHeading))

MergeRows(g) == DataRows(Block(SectionOf(g[1]), g[4]))

-----------------------------------------------------------------------------
(* C1 *)

\* C1: for every section the generic rule reconciles (projects by 'key';
\* priorities, resolutions, issue types by 'name'), with repeated identity keys
\* allowed: the keys of the additions rows and the keys of the merges rows are
\* disjoint, together they are exactly the identity keys that occur in the
\* source collection, and a source key is among the merges exactly when it
\* occurs in the target collection.
C1_AdditionsMergesPartition ==
    \A g \in GenericSections :
        Built(g[1]) =>
            LET adds   == Range(Column(AdditionRows(g), 1))
                merges == Range(Column(MergeRows(g), 1))
                src    == AttrSet(data_source[g[2]], g[3])
                tgt    == AttrSet(data_target[g[2]], g[3])
            IN /\ adds \cap merges = {}
               /\ adds \cup merges = src
               /\ \A k \in src : k \in merges <=> k \in tgt

\* a generic section built from a source with a repeated key, some keys added
\* and some merged
C1_Witness ==
    \E g \in GenericSections :
        /\ pc = "done"
        /\ Built(g[1])
        /\ HasRepeat(data_source[g[2]], g[3])
        /\ AdditionRows(g) # <<>>
        /\ MergeRows(g) # <<>>

-----------------------------------------------------------------------------
(* C10 *)

\* rows in the order in which their keys first occur in the source, one row per key
InFirstSeenOrder(rows, coll, attr) ==
    \A i, j \in DOMAIN rows :
        i < j => FirstIdx(coll, attr, rows[i][1]) < FirstIdx(coll, attr, rows[j][1])

-----------------------------------------------------------------------------
(* C4 *)

\* the filters and dashboards sections: title, entity key, conflicts heading
NameSections ==
    { <<"Filters",    "filters",    FilterConflictsHeading>>,
      <<"Dashboards", "dashboards", DashboardConflictsHeading>> }

\* the names written as bullets under the conflicts heading, in order
WrittenConflicts(n) ==
    LET block == Block(SectionOf(n[1]), n[3])
        names == AttrSet(data_source[n[2]], "name") \cup AttrSet(data_target[n[2]], "name")
    IN Filter(block, {Paragraph("* " \o x) : x \in names})

\* C4: in the filters and the dashboards section a name is written to the
\* conflicts list only if it occurs in both the source and the target
\* collection, every name that occurs in both is written, and nothing else is
\* written under the conflicts heading but the no-conflicts sentence.
C4_ConflictsAreSharedNames ==
    \A n \in NameSections :
        Built(n[1]) =>
            LET block   == Block(SectionOf(n[1]), n[3])
                src     == AttrSet(data_source[n[2]], "name")
                tgt     == AttrSet(data_target[n[2]], "name")
                written == {x \in src \cup tgt : Paragraph("* " \o x) \in Range(block)}
            IN /\ written = src \cap tgt
               /\ \A i \in DOMAIN block :
                    \/ block[i] \in {Paragraph("* " \o x) : x \in src \cap tgt}
                    \/ block[i] \in {Paragraph(NoFilterConflicts), Paragraph(NoDashboardConflicts)}

\* a built filters or dashboards section with one name on both sides, written,
\* and one name on the source side only, not written
C4_Witness ==
    \E n \in NameSections :
        /\ Built(n[1])
        /\ LET src == AttrSet(data_source[n[2]], "name")
               tgt == AttrSet(data_target[n[2]], "name")
           IN /\ src \cap tgt # {}
              /\ src \ tgt # {}
              /\ WrittenConflicts(n) # <<>>

-----------------------------------------------------------------------------
(* C2 *)

FieldRows(h2) == DataRows(Block(SectionOf("Custom Fields"), h2))

\* C2 as claimed: every source custom field whose schema type is on the
\* denylist has no row in the additions table and has its row (name, type) in
\* the non-migratable table, whether or not the target has a field of that
\* name and also when several source fields share a name.
C2_DenylistedAlwaysReported ==
    Built("Custom Fields") =>
        \A i \in DOMAIN data_source["customfields"] :
            LET field == data_source["customfields"][i]
                row   == <<field["name"], get_field_type(field)>>
            IN get_field_type(field) \in non_migratable_types =>
                 /\ row \notin Range(FieldRows(FieldsAddedHeading))
                 /\ row \in Range(FieldRows(FieldsNotMigratedHeading))

-----------------------------------------------------------------------------
(* C3 *)

StatusCategory(status) == status["statusCategory"]["name"]

StatusConflictRowsIn == DataRows(Block(SectionOf("Statuses"), StatusConflictsHeading))

RowsNamed(rows, name) == {i \in DOMAIN rows : rows[i][1] = name}

-----------------------------------------------------------------------------
(* C7 *)

\* the type / category a collection gives a name: that of its last record
LastFieldType(coll, name) == get_field_type(coll[LastIdx(coll, "name", name)])

LastCategory(coll, name) == StatusCategory(coll[LastIdx(coll, "name", name)])

\* every result category of the report: section title, entity key, identity
\* attribute, heading of the category, category
Categories ==
    { <<g[1], g[2], g[3], AddedHeading, "additions">> : g \in GenericSections }
    \cup { <<g[1], g[2], g[3], g[4], IF g[1] = "Projects" THEN "project conflicts" ELSE "merges">>
           : g \in GenericSections }
    \cup { <<n[1], n[2], "name", n[3], "name conflicts">> : n \in NameSections }
    \cup { <<"Custom Fields", "customfields", "name", FieldsAddedHeading, "field additions">>,
           <<"Custom Fields", "customfields", "name", FieldsMergedHeading, "field merges">>,
           <<"Custom Fields", "customfields", "name", FieldsNotMigratedHeading, "non-migratable">>,
           <<"Statuses", "statuses", "name", StatusesAddedHeading, "additions">>,
           <<"Statuses", "statuses", "name", StatusConflictsHeading, "status conflicts">> }

\* the number of entries of a category's result set, from the collections
EntryCount(c) ==
    LET src  == data_source[c[2]]
        tgt  == data_target[c[2]]
        sk   == AttrSet(src, c[3])
        tk   == AttrSet(tgt, c[3])
    IN CASE c[5] = "additions"         -> Cardinality(sk \ tk)
         [] c[5] = "merges"            -> Cardinality(sk \cap tk)
         [] c[5] = "project conflicts" -> Cardinality(sk \cap tk)
         [] c[5] = "name conflicts"    -> Cardinality({i \in DOMAIN src : src[i]["name"] \in tk})
         [] c[5] = "field additions"   ->
              Cardinality({n \in sk \ tk : LastFieldType(src, n) \notin non_migratable_types})
         [] c[5] = "field merges"      ->
              Cardinality({n \in sk \cap tk : LastFieldType(src, n) # LastFieldType(tgt, n)})
         [] c[5] = "non-migratable"    ->
              Cardinality({n \in sk : LastFieldType(src, n) \in non_migratable_types})
         [] c[5] = "status conflicts"  ->
              Cardinality({n \in sk \cap tk : LastCategory(src, n) # LastCategory(tgt, n)})

CategoryBlock(c) == Block(SectionOf(c[1]), c[4])

\* a block that is one table: a header row naming every column, then n data rows
IsTableOf(block, n) ==
    /\ Len(block) = 1
    /\ block[1].kind = "table"
    /\ Len(block[1].rows) = n + 1
    /\ block[1].rows[1] # <<>>
    /\ \A i \in DOMAIN block[1].rows[1] : block[1].rows[1][i] # ""

\* a block that is one sentence and no table
IsSentence(block) ==
    /\ Len(block) = 1
    /\ block[1].kind = "paragraph"

\* a block of n bullet paragraphs and no table
IsBulletsOf(block, n) ==
    /\ Len(block) = n
    /\ \A i \in DOMAIN block : block[i].kind = "paragraph"

\* C7 as claimed: in every built section every result category is rendered as
\* a single sentence and no table when its result set is empty, and as a table
\* with a header row and exactly one data row per entry otherwise.
C7_SentenceOrTableEverywhere ==
    \A c \in Categories :
        Built(c[1]) =>
            IF EntryCount(c) = 0 THEN IsSentence(CategoryBlock(c))
                                 ELSE IsTableOf(CategoryBlock(c), EntryCount(c))

\* C7 amended: the additions of every section that reports them, the merges and
\* the non-migratable fields of the custom-fields section and the conflicts of
\* the statuses section are rendered as a single sentence and no table when
\* empty and as a table with a header row and one data row per entry
\* otherwise; the merges of priorities, resolutions and issue types are always
\* rendered as a table with a header row and one data row per entry, also when
\* empty; the conflicts of projects are rendered as such a table when there
\* are any and not at all, heading included, when there are none; the
\* conflicts of filters and dashboards are rendered as one bullet paragraph
\* per entry and no table, or as a single sentence when there are none.
C7_RenderingPerCategory ==
    \A c \in Categories :
        Built(c[1]) =>
            LET n     == EntryCount(c)
                block == CategoryBlock(c)
            IN CASE c[5] = "merges" -> IsTableOf(block, n)
                 [] c[5] = "project conflicts" ->
                      IF n = 0 THEN ~HasBlock(SectionOf(c[1]), c[4]) /\ block = <<>>
                               ELSE IsTableOf(block, n)
                 [] c[5] = "name conflicts" ->
                      IF n = 0 THEN IsSentence(block) ELSE IsBulletsOf(block, n)
                 [] OTHER ->
                      IF n = 0 THEN IsSentence(block) ELSE IsTableOf(block, n)

\* a finished report in which one section shows an empty category as a
\* sentence next to a non-empty one as a table with a row per entry
C7_Witness ==
    /\ pc = "done"
    /\ \E c1, c2 \in Categories :
         /\ c1[1] = c2[1]
         /\ Built(c1[1])
         /\ EntryCount(c1) = 0
         /\ IsSentence(CategoryBlock(c1))
         /\ EntryCount(c2) = 2
         /\ IsTableOf(CategoryBlock(c2), 2)

-----------------------------------------------------------------------------
(* C5 *)

\* the sections in the order the script builds them: the loop of line 374,
\* then custom fields, then statuses
AllTitles == <<"Projects", "Priorities", "Resolutions", "Issue Types", "Filters",
               "Dashboards", "Custom Fields", "Statuses">>

\* the title as the error line names it
LogTitle(title) ==
    CASE title = "Custom Fields" -> "custom fields"
      [] title = "Statuses"      -> "statuses"
      [] OTHER                   -> title

FetchedBoth == fetchIdx = 2 * Len(endpoints) /\ searchIdx = Len(Searches)

\* C5: once both instances are fetched, a failure raised by a section function
\* is caught and logged, every later section in the fixed order is still
\* attempted, and the document is still saved: the script never stops between
\* the end of the fetch and the save, the sections attempted are always a
\* prefix of the fixed order, all eight have been attempted when the save is
\* reached, each failure has its error line, and the finished run has saved.
C5_SectionFailuresDoNotStopTheReport ==
    /\ FetchedBoth => pc \in {"sections", "custom_fields", "statuses", "save", "done"}
    /\ pc \in {"sections", "custom_fields", "statuses", "save"} => ENABLED Next
    /\ attempted = SubSeq(AllTitles, 1, Len(attempted))
    /\ pc \in {"save", "done"} => attempted = AllTitles
    /\ pc = "done" => saved
    /\ failed \subseteq Range(attempted)
    /\ \A t \in failed : ("Failed to analyze " \o LogTitle(t)) \in Range(log)
    /\ Len(log) = Cardinality(failed)

\* a finished, saved run in which the first section and a later one failed
\* and the last section was still built
C5_Witness ==
    /\ pc = "done"
    /\ saved
    /\ "Projects" \in failed
    /\ "Custom Fields" \in failed
    /\ Built("Statuses")
    /\ \E i \in DOMAIN file : file[i] = Heading("Statuses", 1)

-----------------------------------------------------------------------------
(* C6 *)

\* the level-1 headings of a document, in order
Level1Titles(d) ==
    LET hs == Filter(d, {e \in Range(d) : e.kind = "heading" /\ e.level = 1})
    IN [i \in DOMAIN hs |-> hs[i].text]

TitlePos(t) == CHOOSE i \in DOMAIN AllTitles : AllTitles[i] = t

\* C6: the level-1 headings of the document are section titles in the order
\* projects, priorities, resolutions, issue types, filters, dashboards, custom
\* fields, statuses: no heading comes before one that precedes it in this
\* order, no title occurs twice, and nothing is appended once the document is
\* saved (the saved file is the document).
C6_FixedSectionOrder ==
    LET hs == Level1Titles(doc)
    IN /\ \A i \in DOMAIN hs : hs[i] \in Range(AllTitles)
       /\ \A i, j \in DOMAIN hs : i < j => TitlePos(hs[i]) < TitlePos(hs[j])
       /\ saved => file = doc

\* a saved report with all eight section headings
C6_Witness ==
    /\ saved
    /\ Level1Titles(file) = AllTitles

-----------------------------------------------------------------------------
(* C8 *)

\* C8: a non-success response to a GET, single-shot or paginated, aborts the
\* fetch: the script is stopped for good with the failed request the last one
\* issued, so that request is not issued again and none follows it; and no
\* fetch call issues the same (instance, endpoint, offset) request twice.
C8_FailedGetAborts ==
    /\ \A i, j \in DOMAIN issued : i < j => issued[i] # issued[j]
    /\ Len(failedReq) <= 1
    /\ failedReq # <<>> =>
         /\ pc = "aborted"
         /\ ~ENABLED Next
         /\ issued # <<>>
         /\ issued[Len(issued)] = failedReq[1]

\* a paginated search whose second request was answered with a failure
C8_Witness ==
    /\ pc = "aborted"
    /\ failedReq # <<>>
    /\ Len(issued) = 2
    /\ failedReq[1].start_at = max_results

-----------------------------------------------------------------------------
(* C9 *)

\* a response that signals the last page: isLast true, or isLast absent
SignalsLast(page) == page.isLast \in {"true", "absent"}

\* the values of the pages served at offsets 0, 50, ..., 50 * (n - 1), in page order
RECURSIVE ConcatPages(_, _, _)
ConcatPages(inst, key, n) ==
    IF n = 0 THEN <<>>
    ELSE ConcatPages(inst, key, n - 1) \o ServerPage(inst, key, max_results * (n - 1)).values

\* the number of the first page whose response signals the last page
FirstLastPage(inst, key) ==
    Min({k \in 1..(Len(server.pages[inst][key]) + 1) :
            SignalsLast(ServerPage(inst, key, max_results * (k - 1)))})

Fetched(c) == IF c.inst = "source" THEN data_source[c.key] ELSE data_target[c.key]

\* the requests of the running search are at offsets 0, 50, 100, ..., none
\* past the first page that signals the last, and the list holds the pages so far
SearchInOrder ==
    (pc \in {"search", "search_return"} /\ ~(pc = "search" /\ start_at = 0)) =>
        LET c == Searches[searchIdx + 1]
            n == Len(issued)
        IN /\ issued = [i \in 1..n |-> Request(c.inst, SearchPath(c.fn), max_results * (i - 1))]
           /\ n <= FirstLastPage(c.inst, c.key)
           /\ items = ConcatPages(c.inst, c.key, n)
           /\ pc = "search_return" <=> n = FirstLastPage(c.inst, c.key)
           /\ pc = "search" => start_at = max_results * n

\* C9 as claimed: both searches return the contents of the pages up to the
\* first one that signals the last, concatenated in page order.
C9_ReturnsConcatenation ==
    \A k \in 1..searchIdx :
        LET c == Searches[k]
        IN Fetched(c) = ConcatPages(c.inst, c.key, FirstLastPage(c.inst, c.key))

WithoutDefaultDashboard(list) ==
    Filter(list, {x \in Range(list) : x["name"] # "Default dashboard"})

SearchesReturnPages ==
    \A k \in 1..searchIdx :
        LET c   == Searches[k]
            all == ConcatPages(c.inst, c.key, FirstLastPage(c.inst, c.key))
        IN Fetched(c) = IF c.fn = "search_dashboards" THEN WithoutDefaultDashboard(all) ELSE all

\* C9 amended: both searches issue GETs at offsets 0, 50, 100, ... with page
\* size 50, stop after the first response that signals the last page (isLast
\* true or absent) and never request a page after it; search_filters returns
\* the page contents concatenated in page order, search_dashboards returns
\* them concatenated in page order without the entries named 'Default
\* dashboard'; and every search ends, by returning or by a failed request.
C9_PaginationStopsAtLastPage ==
    /\ [](SearchInOrder /\ SearchesReturnPages)
    /\ <>(pc \in {"sections", "aborted"})

\* a dashboards search over two pages, the first not the last, that has
\* returned both pages' dashboards but the default one
C9_Witness ==
    /\ searchIdx >= 3
    /\ LET c == Searches[3]
       IN /\ FirstLastPage(c.inst, c.key) = 2
          /\ Len(ConcatPages(c.inst, c.key, 2)) = 2
          /\ Len(Fetched(c)) = 1

====
